---- MODULE Spec2Model ----
(***************************************************************************)
(* Model of gui_auto.py: main() up to the end of the initial search, and   *)
(* find_and_click(), the bounded-time search over all monitors and all     *)
(* templates followed by the pointer / key action.                         *)
(*                                                                         *)
(* Scores are the values of cv2.matchTemplate(TM_CCOEFF_NORMED), which lie *)
(* in [-1.0, 1.0]; the model keeps them as integers in                     *)
(* -ScoreSteps..ScoreSteps, where -ScoreSteps stands for -1.0 and          *)
(* ScoreSteps for 1.0.  The acceptance threshold is drawn from [0, 1],     *)
(* i.e. 0..ScoreSteps.  Time is the monotonic clock in milliseconds.  The  *)
(* clock is read at lines 103 and 106 only, so the time that passes during *)
(* a pass is added where the pass ends (the retry sleep), and the time     *)
(* that passes between lines 103 and 106 where the search starts.          *)
(* main (line 326) and find_and_click (line 105) each open their own mss   *)
(* session; the two enumerations are separate reads of the displays.       *)
(***************************************************************************)
EXTENDS Integers, Sequences, FiniteSets, TLC

VARIABLES
    pc,              \* position of the main thread in main / find_and_click
    images,          \* find_and_click argument: the list of template paths
    threshold,       \* find_and_click argument
    retry_ms,        \* find_and_click argument
    timeout_ms,      \* find_and_click argument
    hud_monitors,    \* main: monitors = get_monitors()
    templates,       \* find_and_click: templates = _load_templates(images)
    warned,          \* paths for which _load_templates printed a warning
    now,             \* the value the next read of time.monotonic() returns, in ms
    start,           \* find_and_click: start = time.monotonic()
    monitors,        \* find_and_click: monitors = sct.monitors[1:]
    mi,              \* index of the monitor of the running "for mon" pass
    ti,              \* index of the template of the running "for tpl" pass
    best_val,        \* find_and_click locals, reset in every iteration
    best_loc,
    best_tpl_size,
    best_monitor,    \* index into monitors of the dict held, 0 for None
    best_image_name, \* path held, "" for None
    gx,
    gy,
    found,           \* main: found = find_and_click(...); "unset" before
    outcome,         \* how the call ended: ACTING, EXPIRED, NO_TEMPLATES, ...
    calls,           \* history: the pyautogui / settle calls made, in order
    iterations,      \* history: passes of the while body entered (saturating)
    enumerated,      \* history: find_and_click has read sct.monitors
    clock_read,      \* history: find_and_click has read time.monotonic()
    grabbed,         \* history: monitors whose grab was attempted, this iteration
    grab_failed,     \* history: monitors whose grab failed, this iteration
    prev_failed,     \* history: monitors whose grab failed, previous iteration
    tried,           \* history: (monitor, template) pairs handed to matchTemplate, this iteration
    seen,            \* history: the greatest score returned this iteration and the first pair in order that got it
    last_match,      \* history: "returned" / "raised" when the last step was a matchTemplate call, else "none"
    report,          \* the values of the last result line find_and_click printed
    best_seen,       \* history, kept by DecideTracking only: << greatest score of the passes ended so far >>
    abort_at,        \* history: the pass count when the user asked to abort, -1 before
    mouse,           \* the pointer position pyautogui.position() returns
    mon_idx,         \* Hud._update: mon_idx = point_monitor_index(x, y, self.monitors); -1 before
    hk_pc,           \* position of the hotkey thread in Hud.show / Hud.hide
    tk_pc,           \* position of the Tk thread in a timer-driven Hud._update
    win,             \* Hud.win: 0 for None, else the id of a window
    label,           \* Hud.label: 0 for None, else the id of the window it is in
    job,             \* Hud.job: 0 for None, else the id of an after() job
    cancel_arg,      \* hide: the value of self.job passed to after_cancel
    windows,         \* the ids of the Toplevel windows that exist
    pending,         \* the ids of the after() jobs scheduled and not yet run
    hidden,          \* hide() has ended and show() has not been called since
    presses          \* how many F8 events the hotkey thread has taken

vars == << pc, images, threshold, retry_ms, timeout_ms, hud_monitors, templates,
           warned, now, start, monitors, mi, ti, best_val, best_loc,
           best_tpl_size, best_monitor, best_image_name, gx, gy, found,
           outcome, calls, iterations, enumerated, clock_read, grabbed,
           grab_failed, prev_failed, tried, seen, last_match, report,
           best_seen, abort_at, mouse, mon_idx, hk_pc, tk_pc, win, label, job,
           cancel_arg, windows, pending, hidden, presses >>

(***************************************************************************)
(* Bounds of the model.                                                    *)
(***************************************************************************)
ScoreSteps == 1
MaxTimeout == 2
MaxCoord == 3
MaxPaths == 3
MaxPresses == 3

Scores == (-ScoreSteps)..ScoreSteps
Thresholds == 0..ScoreSteps
Timeouts == 0..MaxTimeout
Retries == {-1, 0, 1, 2}
Overshoot == {0, 1}
ClockOrigins == {3}
MaxIterations == MaxTimeout + 2

(***************************************************************************)
(* The environment: the files the paths name, and the displays.            *)
(***************************************************************************)
\* cv2.imread(path, IMREAD_COLOR): a decoded image of some shape, None, or an exception
ImRead(path) ==
    CASE path = "a.png" -> [kind |-> "image", w |-> 1, h |-> 1]
      [] path = "b.png" -> [kind |-> "image", w |-> 2, h |-> 1]
      [] path = "locked.png" -> [kind |-> "raise", w |-> 0, h |-> 0]
      [] OTHER -> [kind |-> "none", w |-> 0, h |-> 0]

ImageLists ==
    { <<>>,
      << "missing.png" >>,
      << "locked.png", "missing.png" >>,
      << "a.png" >>,
      << "a.png", "b.png" >>,
      << "missing.png", "b.png", "a.png" >> }

\* the paths a caller can pass, and every list of at most MaxPaths of them
Paths == { "a.png", "b.png", "locked.png", "missing.png" }

PathLists == UNION { [1..n -> Paths] : n \in 0..MaxPaths }

MonA == [left |-> 0, top |-> 0, width |-> 2, height |-> 1]
MonB == [left |-> -3, top |-> 0, width |-> 1, height |-> 1]

\* what sct.monitors[1:] can hold when it is read
Layouts == { <<>>, << MonA >>, << MonA, MonB >>, << MonB, MonA >> }

\* further displays: MonC to the right of MonA, MonD overlapping MonA (a clone)
MonC == [left |-> 2, top |-> 0, width |-> 1, height |-> 2]
MonD == [left |-> 1, top |-> 0, width |-> 2, height |-> 2]

\* the monitor lists point_monitor_index is applied to
LocateLayouts ==
    Layouts \cup { << MonA, MonC >>, << MonA, MonD >>, << MonD, MonA >>,
                   << MonB, MonA, MonC >> }

\* the pointer positions
Points == ((-MaxCoord)..MaxCoord) \X ((-1)..MaxCoord)

(***************************************************************************)
(* Python values.                                                          *)
(***************************************************************************)
None == << >>

\* truth value of an Optional tuple: None and () are false
Truthy(t) == Len(t) > 0

\* int(n / 2) for an integer n: float division, then truncation toward zero
IntHalf(n) == IF n >= 0 THEN n \div 2 ELSE -((-n) \div 2)

Max(a, b) == IF a >= b THEN a ELSE b

Min(a, b) == IF a <= b THEN a ELSE b

(***************************************************************************)
(* point_monitor_index                                                     *)
(***************************************************************************)
\* mutant: the right and bottom edges count as inside
InMonitor_closed(x, y, m) ==
    /\ x >= m.left
    /\ y >= m.top
    /\ x <= m.left + m.width
    /\ y <= m.top + m.height

\* the condition of lines 51-56
InMonitor(x, y, m) ==
    /\ x >= m.left
    /\ y >= m.top
    /\ x < m.left + m.width
    /\ y < m.top + m.height

\* the loop of lines 50-58, from the monitor of 1-based index idx on
RECURSIVE IndexFrom(_, _, _, _)
IndexFrom(x, y, mons, idx) ==
    IF idx > Len(mons) THEN 0
    ELSE IF InMonitor(x, y, mons[idx]) THEN idx
    ELSE IndexFrom(x, y, mons, idx + 1)

point_monitor_index(x, y, mons) == IndexFrom(x, y, mons, 1)

(***************************************************************************)
(* _load_templates                                                         *)
(***************************************************************************)
\* mutant: the first unreadable path ends the loop
RECURSIVE LoadFrom_stop(_, _)
LoadFrom_stop(paths, loaded) ==
    IF paths = <<>> THEN loaded
    ELSE LET r == ImRead(Head(paths))
         IN  IF r.kind = "image"
             THEN LoadFrom_stop(Tail(paths), Append(loaded, [name |-> Head(paths), w |-> r.w, h |-> r.h]))
             ELSE loaded

RECURSIVE LoadFrom(_, _)
LoadFrom(paths, loaded) ==
    IF paths = <<>> THEN loaded
    ELSE LET r == ImRead(Head(paths))
         IN  IF r.kind = "image"
             THEN LoadFrom(Tail(paths), Append(loaded, [name |-> Head(paths), w |-> r.w, h |-> r.h]))
             ELSE LoadFrom(Tail(paths), loaded)

_load_templates(paths) == LoadFrom(paths, <<>>)

RECURSIVE WarnFrom(_, _)
WarnFrom(paths, out) ==
    IF paths = <<>> THEN out
    ELSE IF ImRead(Head(paths)).kind = "image"
         THEN WarnFrom(Tail(paths), out)
         ELSE WarnFrom(Tail(paths), Append(out, Head(paths)))

Warnings(paths) == WarnFrom(paths, <<>>)

(***************************************************************************)
(* find_and_click: the pieces of the loop                                  *)
(***************************************************************************)
\* the initial value of best_val, -1.0
InitialBest == -ScoreSteps

\* mutant: the elapsed time is taken from the clock value read at the start
WithinBudget_stale == (start - start) < timeout_ms

\* mutant: the deadline itself still counts as within budget
WithinBudget_inclusive == (now - start) <= timeout_ms

\* the while condition: (time.monotonic() - start) * 1000 < timeout_ms
WithinBudget == (now - start) < timeout_ms

\* mutant: only an empty path list is taken for "no templates"
NoTemplates_paths == images = <<>>

\* "if not templates"
NoTemplates == templates = <<>>

\* cv2.matchTemplate raises when the template exceeds the frame along an axis
Fits(mon, tpl) == tpl.w <= mon.width /\ tpl.h <= mon.height

\* the offsets cv2.minMaxLoc can report for a template that fits
Offsets(mon, tpl) ==
    { << x, y >> : x \in 0..(mon.width - tpl.w), y \in 0..(mon.height - tpl.h) }

\* "if max_val > best_val"
Better(max_val) == max_val > best_val

\* mutant: a best score equal to the threshold is rejected
Accept_strict ==
    /\ best_val > threshold
    /\ Truthy(best_loc)
    /\ Truthy(best_tpl_size)
    /\ best_monitor # 0

\* the condition of line 138
Accept ==
    /\ best_val >= threshold
    /\ Truthy(best_loc)
    /\ Truthy(best_tpl_size)
    /\ best_monitor # 0

\* gx, gy of lines 139-140
CenterX == IntHalf(2 * (monitors[best_monitor].left + best_loc[1]) + best_tpl_size[1])

CenterY == IntHalf(2 * (monitors[best_monitor].top + best_loc[2]) + best_tpl_size[2])

\* mutant: the retry sleep lasts half the interval
RetrySleep_half == Max(0, retry_ms \div 2)

\* time.sleep(max(0.0, retry_ms / 1000.0)), in ms
RetrySleep == Max(0, retry_ms)

\* where control goes after the body of "for mon" ends for monitor m
AfterMonitor(m) == IF m < Len(monitors) THEN "grab" ELSE "decide"

\* mutant: a failed grab ends the pass over the monitors ("break")
AfterGrabFailure_break(m) == "decide"

\* where control goes after the "except ... continue" of a failed grab of monitor m
AfterGrabFailure(m) == AfterMonitor(m)

\* mutant: the pass ends as soon as the held candidate reaches the threshold
AfterTemplate_early(m, t) ==
    IF best_val >= threshold /\ best_monitor # 0 THEN "decide"
    ELSE IF t < Len(templates) THEN "score"
    ELSE AfterMonitor(m)

\* where control goes after the body of "for ... in templates" ends for template t
AfterTemplate(m, t) == IF t < Len(templates) THEN "score" ELSE AfterMonitor(m)

\* mutant: a failed matchTemplate ends the pass over the templates ("break")
AfterScoreFailure_break(m, t) == AfterMonitor(m)

\* where control goes after the "except ... continue" of a failed matchTemplate
AfterScoreFailure(m, t) == AfterTemplate(m, t)

\* mutant: a raised call turns the result into False
ActionResult_downgrade(raised) == ~raised

\* the value returned once the action block (lines 151-164) is left, whether or
\* not one of its calls raised
ActionResult(raised) == TRUE

\* mutant: the "return True" is missing, the loop goes on
AfterAction_fallthrough == "sleep"

\* where control goes after the action block: "return True"
AfterAction == "searched"

\* mutant: the settle delay is skipped
AfterCall_nosettle(op) ==
    CASE op = "moveTo" -> "click"
      [] op = "click" -> "press"
      [] op = "settle" -> "press"
      [] OTHER -> AfterAction

\* a result line: its kind and the values printed in it
Report(kind, fields) == [kind |-> kind, fields |-> fields]

\* line 168: "[info] No image matched within timeout."
NotFoundReport == Report("not_found", <<>>)

\* lines 141-150: "[match] name @ monitor#idx score=... center=(gx,gy)"; idx is
\* the 1-based place of the first monitor that is the dict held
MatchReport == Report("match", << best_image_name, best_monitor, best_val, CenterX, CenterY >>)

\* the order of the calls of the action block when none raises
AfterCall(op) ==
    CASE op = "moveTo" -> "click"
      [] op = "click" -> "settle"
      [] op = "settle" -> "press"
      [] OTHER -> AfterAction

\* one entry of the history of calls
Call(op, ok, at) == [op |-> op, ok |-> ok, at |-> at]

\* the history of the greatest score of the iteration and the first pair, in
\* (monitor, template) order, that got it
SeenAfter(s, m, t) ==
    IF seen = None THEN << s, m, t >>
    ELSE IF s > seen[1] THEN << s, m, t >>
    ELSE IF s = seen[1] /\ (m < seen[2] \/ (m = seen[2] /\ t < seen[3])) THEN << s, m, t >>
    ELSE seen

locals == << best_val, best_loc, best_tpl_size, best_monitor, best_image_name >>

args == << images, threshold, retry_ms, timeout_ms >>

history == << grabbed, grab_failed, prev_failed, tried, seen >>

\* the state of the HUD and of its two threads
hud == << hk_pc, tk_pc, win, label, job, cancel_arg, windows, pending, hidden, presses >>

\* Hud.__init__, lines 177-182, with no window, no job and both threads idle
NewHud ==
    /\ hk_pc = "idle"
    /\ tk_pc = "idle"
    /\ win = 0
    /\ label = 0
    /\ job = 0
    /\ cancel_arg = 0
    /\ windows = {}
    /\ pending = {}
    /\ hidden = FALSE
    /\ presses = 0

\* what the search leaves alone
others == << abort_at, mouse, mon_idx, hud >>

\* the step made no matchTemplate call
NoMatchCall == last_match' = "none"

(***************************************************************************)
(* Initial state: main() is entered; the arguments of the search are any   *)
(* of the bounded values.                                                  *)
(***************************************************************************)
Init ==
    /\ pc = "main"
    /\ images \in ImageLists
    /\ threshold \in Thresholds
    /\ retry_ms \in Retries
    /\ timeout_ms \in Timeouts
    /\ hud_monitors = <<>>
    /\ templates = <<>>
    /\ warned = <<>>
    /\ now \in ClockOrigins
    /\ start = 0
    /\ monitors = <<>>
    /\ mi = 0
    /\ ti = 0
    /\ best_val = InitialBest
    /\ best_loc = None
    /\ best_tpl_size = None
    /\ best_monitor = 0
    /\ best_image_name = ""
    /\ gx = 0
    /\ gy = 0
    /\ found = "unset"
    /\ outcome = "running"
    /\ calls = <<>>
    /\ iterations = 0
    /\ enumerated = FALSE
    /\ clock_read = FALSE
    /\ grabbed = {}
    /\ grab_failed = {}
    /\ prev_failed = {}
    /\ tried = {}
    /\ seen = None
    /\ last_match = "none"
    /\ report = Report("none", <<>>)
    /\ best_seen = <<>>
    /\ abort_at = -1
    /\ mouse = << 0, 0 >>
    /\ mon_idx = -1
    /\ NewHud

(***************************************************************************)
(* main, lines 325-332                                                     *)
(***************************************************************************)
\* monitors = get_monitors(); "if not monitors: return"
GetMonitors ==
    /\ UNCHANGED report
    /\ NoMatchCall
    /\ pc = "main"
    /\ \E layout \in Layouts :
        /\ hud_monitors' = layout
        /\ pc' = IF layout = <<>> THEN "exit" ELSE "load"
        /\ outcome' = IF layout = <<>> THEN "NO_MONITORS" ELSE outcome
    /\ UNCHANGED << best_seen, others, args, templates, warned, now, start, monitors, mi, ti, locals,
                    gx, gy, found, calls, iterations, enumerated, clock_read, history >>

(***************************************************************************)
(* find_and_click                                                          *)
(***************************************************************************)
\* lines 98-101: load the templates, give up when there is none
LoadTemplates ==
    /\ NoMatchCall
    /\ pc = "load"
    /\ templates' = _load_templates(images)
    /\ warned' = Warnings(images)
    /\ UNCHANGED << best_seen, others, args, hud_monitors, now, start, monitors, mi, ti, locals,
                    gx, gy, calls, iterations, enumerated, clock_read, history >>
    /\ IF NoTemplates'
       THEN /\ pc' = "searched"
            /\ found' = FALSE
            /\ outcome' = "NO_TEMPLATES"
            /\ report' = Report("no_images", <<>>)
       ELSE /\ pc' = "start"
            /\ UNCHANGED << found, outcome, report >>

\* lines 103-105: start = time.monotonic(); monitors = sct.monitors[1:].
\* d is the time that passes before the clock is read again at line 106.
StartSearch ==
    /\ UNCHANGED report
    /\ NoMatchCall
    /\ pc = "start"
    /\ start' = now
    /\ clock_read' = TRUE
    /\ \E layout \in Layouts : monitors' = layout
    /\ enumerated' = TRUE
    /\ \E d \in Overshoot : now' = now + d
    /\ pc' = "check"
    /\ UNCHANGED << best_seen, others, args, hud_monitors, templates, warned, mi, ti, locals,
                    gx, gy, found, outcome, calls, iterations, history >>

\* line 106 true, lines 107-111 and the entry of "for mon"
EnterIteration ==
    /\ UNCHANGED report
    /\ NoMatchCall
    /\ pc = "check"
    /\ WithinBudget
    /\ best_val' = InitialBest
    /\ best_loc' = None
    /\ best_tpl_size' = None
    /\ best_monitor' = 0
    /\ best_image_name' = ""
    /\ iterations' = Min(iterations + 1, MaxIterations)
    /\ mi' = IF Len(monitors) > 0 THEN 1 ELSE 0
    /\ ti' = 0
    /\ pc' = AfterMonitor(0)
    /\ grabbed' = {}
    /\ grab_failed' = {}
    /\ prev_failed' = grab_failed
    /\ tried' = {}
    /\ seen' = None
    /\ UNCHANGED << best_seen, others, args, hud_monitors, templates, warned, now, start, monitors,
                    gx, gy, found, outcome, calls, enumerated, clock_read >>

\* line 106 false, lines 168-169
Expire ==
    /\ NoMatchCall
    /\ pc = "check"
    /\ ~WithinBudget
    /\ pc' = "searched"
    /\ found' = FALSE
    /\ outcome' = "EXPIRED"
    /\ report' = NotFoundReport
    /\ UNCHANGED << best_seen, others, args, hud_monitors, templates, warned, now, start, monitors, mi, ti,
                    locals, gx, gy, calls, iterations, enumerated, clock_read, history >>

\* lines 114-116: the grab of monitor mi succeeds
GrabOK ==
    /\ UNCHANGED report
    /\ NoMatchCall
    /\ pc = "grab"
    /\ grabbed' = grabbed \cup {mi}
    /\ pc' = AfterTemplate(mi, 0)
    /\ ti' = IF pc' = "score" THEN 1 ELSE 0
    /\ mi' = IF pc' = "grab" THEN mi + 1 ELSE mi
    /\ UNCHANGED << best_seen, others, args, hud_monitors, templates, warned, now, start, monitors,
                    locals, gx, gy, found, outcome, calls, iterations, enumerated,
                    clock_read, grab_failed, prev_failed, tried, seen >>

\* lines 117-119: the grab of monitor mi raises
GrabFail ==
    /\ UNCHANGED report
    /\ NoMatchCall
    /\ pc = "grab"
    /\ grabbed' = grabbed \cup {mi}
    /\ grab_failed' = grab_failed \cup {mi}
    /\ pc' = AfterGrabFailure(mi)
    /\ mi' = IF pc' = "grab" THEN mi + 1 ELSE mi
    /\ UNCHANGED << best_seen, others, args, hud_monitors, templates, warned, now, start, monitors, ti,
                    locals, gx, gy, found, outcome, calls, iterations, enumerated,
                    clock_read, prev_failed, tried, seen >>

\* lines 122-126 and 131-136: matchTemplate and minMaxLoc return for (mi, ti)
ScoreOK ==
    /\ UNCHANGED report
    /\ last_match' = "returned"
    /\ pc = "score"
    /\ Fits(monitors[mi], templates[ti])
    /\ \E max_val \in Scores, max_loc \in Offsets(monitors[mi], templates[ti]) :
        /\ IF Better(max_val)
           THEN /\ best_val' = max_val
                /\ best_loc' = max_loc
                /\ best_tpl_size' = << templates[ti].w, templates[ti].h >>
                /\ best_monitor' = mi
                /\ best_image_name' = templates[ti].name
           ELSE UNCHANGED locals
        /\ seen' = SeenAfter(max_val, mi, ti)
    /\ tried' = tried \cup {<< mi, ti >>}
    /\ pc' = AfterTemplate(mi, ti)
    /\ ti' = IF pc' = "score" THEN ti + 1 ELSE 0
    /\ mi' = IF pc' = "grab" THEN mi + 1 ELSE mi
    /\ UNCHANGED << best_seen, others, args, hud_monitors, templates, warned, now, start, monitors,
                    gx, gy, found, outcome, calls, iterations, enumerated,
                    clock_read, grabbed, grab_failed, prev_failed >>

\* lines 127-129: matchTemplate raises for (mi, ti)
ScoreFail ==
    /\ UNCHANGED report
    /\ last_match' = "raised"
    /\ pc = "score"
    /\ tried' = tried \cup {<< mi, ti >>}
    /\ pc' = AfterScoreFailure(mi, ti)
    /\ ti' = IF pc' = "score" THEN ti + 1 ELSE 0
    /\ mi' = IF pc' = "grab" THEN mi + 1 ELSE mi
    /\ UNCHANGED << best_seen, others, args, hud_monitors, templates, warned, now, start, monitors,
                    locals, gx, gy, found, outcome, calls, iterations, enumerated,
                    clock_read, grabbed, grab_failed, prev_failed, seen >>

\* the greatest score of the passes ended so far, this pass included
BestSeenAfter ==
    IF seen = None THEN best_seen
    ELSE IF best_seen = <<>> THEN << seen[1] >>
    ELSE << Max(best_seen[1], seen[1]) >>

\* lines 138-150: the iteration's decision.  With tracking, the history
\* best_seen is kept as well.
DecideWith(tracking) ==
    /\ NoMatchCall
    /\ pc = "decide"
    /\ IF Accept
       THEN /\ gx' = CenterX
            /\ gy' = CenterY
            /\ outcome' = "ACTING"
            /\ report' = MatchReport
            /\ pc' = "moveTo"
       ELSE /\ pc' = "sleep"
            /\ UNCHANGED << gx, gy, outcome, report >>
    /\ best_seen' = IF tracking THEN BestSeenAfter ELSE best_seen
    /\ UNCHANGED << others, args, hud_monitors, templates, warned, now, start, monitors, mi, ti,
                    locals, found, calls, iterations, enumerated, clock_read, history >>

Decide == DecideWith(FALSE)

DecideTracking == DecideWith(TRUE)

\* mutant: a call that raised is made again
LeaveAction_retry(raised) ==
    /\ pc' = pc
    /\ UNCHANGED found

\* leaving the action block of lines 151-164
LeaveAction(raised) ==
    /\ pc' = AfterAction
    /\ found' = IF AfterAction = "searched" THEN ActionResult(raised) ELSE found

\* line 152: pyautogui.moveTo(gx, gy) returns or raises
MoveTo ==
    /\ UNCHANGED report
    /\ NoMatchCall
    /\ pc = "moveTo"
    /\ \E ok \in BOOLEAN :
        /\ calls' = Append(calls, Call("moveTo", ok, << gx, gy >>))
        /\ IF ok THEN pc' = AfterCall("moveTo") /\ UNCHANGED found ELSE LeaveAction(TRUE)
    /\ UNCHANGED << best_seen, others, args, hud_monitors, templates, warned, now, start, monitors, mi, ti,
                    locals, gx, gy, outcome, iterations, enumerated, clock_read, history >>

\* lines 153-154: pyautogui.click() returns or raises
Click ==
    /\ UNCHANGED report
    /\ NoMatchCall
    /\ pc = "click"
    /\ \E ok \in BOOLEAN :
        /\ calls' = Append(calls, Call("click", ok, <<>>))
        /\ IF ok THEN pc' = AfterCall("click") /\ UNCHANGED found ELSE LeaveAction(TRUE)
    /\ UNCHANGED << best_seen, others, args, hud_monitors, templates, warned, now, start, monitors, mi, ti,
                    locals, gx, gy, outcome, iterations, enumerated, clock_read, history >>

\* line 156: time.sleep(0.1)
Settle ==
    /\ UNCHANGED report
    /\ NoMatchCall
    /\ pc = "settle"
    /\ calls' = Append(calls, Call("sleep", TRUE, <<>>))
    /\ pc' = AfterCall("settle")
    /\ UNCHANGED << best_seen, others, args, hud_monitors, templates, warned, now, start, monitors, mi, ti,
                    locals, gx, gy, found, outcome, iterations, enumerated, clock_read,
                    history >>

\* lines 157-164: pyautogui.press('y') returns or raises; return True
Press ==
    /\ UNCHANGED report
    /\ NoMatchCall
    /\ pc = "press"
    /\ \E ok \in BOOLEAN :
        /\ calls' = Append(calls, Call("press", ok, <<>>))
        /\ LeaveAction(~ok)
    /\ UNCHANGED << best_seen, others, args, hud_monitors, templates, warned, now, start, monitors, mi, ti,
                    locals, gx, gy, outcome, iterations, enumerated, clock_read, history >>

\* line 166: the retry sleep.  d is the time the sleep and the pass before it
\* took beyond the requested interval.  The sleep is reached only through the
\* test of line 106, so less than timeout_ms has elapsed; the second conjunct
\* states this bound of the clock.
Sleep ==
    /\ UNCHANGED report
    /\ NoMatchCall
    /\ pc = "sleep"
    /\ now - start <= MaxTimeout
    /\ \E d \in Overshoot : now' = now + RetrySleep + d
    /\ pc' = "check"
    /\ UNCHANGED << best_seen, others, args, hud_monitors, templates, warned, start, monitors, mi, ti,
                    locals, gx, gy, found, outcome, calls, iterations, enumerated,
                    clock_read, history >>

Next ==
    \/ GetMonitors
    \/ LoadTemplates
    \/ StartSearch
    \/ EnterIteration
    \/ Expire
    \/ GrabOK
    \/ GrabFail
    \/ ScoreOK
    \/ ScoreFail
    \/ Decide
    \/ MoveTo
    \/ Click
    \/ Settle
    \/ Press
    \/ Sleep

Spec == Init /\ [][Next]_vars

\* the same program, with the history best_seen kept
NextTracking ==
    \/ GetMonitors
    \/ LoadTemplates
    \/ StartSearch
    \/ EnterIteration
    \/ Expire
    \/ GrabOK
    \/ GrabFail
    \/ ScoreOK
    \/ ScoreFail
    \/ DecideTracking
    \/ MoveTo
    \/ Click
    \/ Settle
    \/ Press
    \/ Sleep

SpecTracking == Init /\ [][NextTracking]_vars

\* find_and_click has not been called: its locals and the history of the
\* search have the values Init gives them
NotCalled ==
    /\ start = 0
    /\ monitors = <<>>
    /\ mi = 0
    /\ ti = 0
    /\ best_val = InitialBest
    /\ best_loc = None
    /\ best_tpl_size = None
    /\ best_monitor = 0
    /\ best_image_name = ""
    /\ gx = 0
    /\ gy = 0
    /\ found = "unset"
    /\ outcome = "running"
    /\ calls = <<>>
    /\ iterations = 0
    /\ clock_read = FALSE
    /\ grabbed = {}
    /\ grab_failed = {}
    /\ prev_failed = {}
    /\ tried = {}
    /\ seen = None
    /\ last_match = "none"
    /\ report = Report("none", <<>>)
    /\ best_seen = <<>>
    /\ abort_at = -1

(***************************************************************************)
(* find_and_click from line 103 on, with the templates loaded: the search  *)
(* of one list of images for every threshold, retry interval and timeout   *)
(***************************************************************************)
InitLive ==
    /\ pc = "start"
    /\ images = << "a.png", "b.png" >>
    /\ threshold \in Thresholds
    /\ retry_ms \in Retries
    /\ timeout_ms \in Timeouts
    /\ hud_monitors = << MonA >>
    /\ templates = _load_templates(images)
    /\ warned = <<>>
    /\ now \in ClockOrigins
    /\ enumerated = TRUE
    /\ NotCalled
    /\ mouse = << 0, 0 >>
    /\ mon_idx = -1
    /\ NewHud

NextLive ==
    \/ StartSearch
    \/ EnterIteration
    \/ Expire
    \/ GrabOK
    \/ GrabFail
    \/ ScoreOK
    \/ ScoreFail
    \/ Decide
    \/ MoveTo
    \/ Click
    \/ Settle
    \/ Press
    \/ Sleep

\* the clock advances: a retry sleep that takes time
Tick == Sleep /\ now' > now

\* the search when every call returns and the clock advances
SpecLive == InitLive /\ [][NextLive]_vars /\ WF_vars(NextLive) /\ SF_vars(Tick)

(***************************************************************************)
(* _load_templates alone, on every list of paths of the bound              *)
(***************************************************************************)
InitLoad ==
    /\ pc = "load"
    /\ images \in PathLists
    /\ threshold = 0
    /\ retry_ms = 0
    /\ timeout_ms = 0
    /\ hud_monitors = << MonA >>
    /\ templates = <<>>
    /\ warned = <<>>
    /\ now \in ClockOrigins
    /\ NotCalled
    /\ enumerated = TRUE
    /\ mouse = << 0, 0 >>
    /\ mon_idx = -1
    /\ NewHud

NextLoad == LoadTemplates

SpecLoad == InitLoad /\ [][NextLoad]_vars

(***************************************************************************)
(* Hud._update, lines 225-230: the pointer is read and located.            *)
(***************************************************************************)
search == << args, templates, warned, now, start, monitors, mi, ti, locals, gx, gy,
             found, outcome, calls, iterations, enumerated, clock_read, history,
             last_match, report, best_seen >>

InitLocate ==
    /\ pc = "hud_pos"
    /\ images = <<>>
    /\ threshold = 0
    /\ retry_ms = 0
    /\ timeout_ms = 0
    /\ hud_monitors \in LocateLayouts
    /\ templates = <<>>
    /\ warned = <<>>
    /\ now \in ClockOrigins
    /\ NotCalled
    /\ enumerated = FALSE
    /\ mouse = << 0, 0 >>
    /\ mon_idx = -1
    /\ NewHud

\* lines 225-229: pos = pyautogui.position(); x, y = 0, 0 when it raises
ReadPointer ==
    /\ pc = "hud_pos"
    /\ \E p \in Points : mouse' = p
    /\ pc' = "hud_idx"
    /\ UNCHANGED << search, hud_monitors, abort_at, mon_idx, hud >>

\* line 230: mon_idx = point_monitor_index(x, y, self.monitors)
Locate ==
    /\ pc = "hud_idx"
    /\ mon_idx' = point_monitor_index(mouse[1], mouse[2], hud_monitors)
    /\ pc' = "hud_located"
    /\ UNCHANGED << search, hud_monitors, abort_at, mouse, hud >>

NextLocate == ReadPointer \/ Locate

SpecLocate == InitLocate /\ [][NextLocate]_vars

(***************************************************************************)
(* The HUD, lines 176-247 and 341-342.  keyboard runs the F8 callbacks      *)
(* (Hud.show, Hud.hide) one after the other on its own thread; Tk runs the *)
(* timer-driven Hud._update on the thread of root.mainloop().  A Tk call   *)
(* made on the hotkey thread is carried out by the Tk thread between two   *)
(* of its callbacks, so it waits while a callback runs; plain reads and    *)
(* writes of the Hud fields do not wait.                                   *)
(***************************************************************************)
\* the Tk thread is between two callbacks
TkIdle == tk_pc = "idle"

\* the id Tk gives the next after() job: one that no field, no local and no
\* scheduled job holds
NewJob == CHOOSE j \in 1..(MaxPresses + 3) : j \notin (pending \cup {job, cancel_arg})

\* the id of the next Toplevel
NewWindow == CHOOSE w \in 1..(MaxPresses + 3) : w \notin (windows \cup {win, label})

rest == << pc, search, hud_monitors, abort_at, mouse, mon_idx >>

InitHud ==
    /\ pc = "mainloop"
    /\ images = <<>>
    /\ threshold = 0
    /\ retry_ms = 0
    /\ timeout_ms = 0
    /\ hud_monitors \in (Layouts \ { <<>> })
    /\ templates = <<>>
    /\ warned = <<>>
    /\ now \in ClockOrigins
    /\ NotCalled
    /\ enumerated = TRUE
    /\ mouse = << 0, 0 >>
    /\ mon_idx = -1
    /\ NewHud

\* line 341: F8 goes down (or repeats while held); the hotkey thread calls hud.show()
PressF8 ==
    /\ hk_pc = "idle"
    /\ presses < MaxPresses
    /\ presses' = presses + 1
    /\ hk_pc' = "show"
    /\ hidden' = FALSE
    /\ UNCHANGED << rest, tk_pc, win, label, job, cancel_arg, windows, pending >>

\* line 342: F8 goes up; the hotkey thread calls hud.hide()
ReleaseF8 ==
    /\ hk_pc = "idle"
    /\ presses < MaxPresses
    /\ presses' = presses + 1
    /\ hk_pc' = "hide"
    /\ UNCHANGED << rest, tk_pc, win, label, job, cancel_arg, windows, pending, hidden >>

\* lines 185-186: "if self.win is not None: return"
ShowCheck ==
    /\ hk_pc = "show"
    /\ hk_pc' = IF win # 0 THEN "idle" ELSE "show_win"
    /\ UNCHANGED << rest, tk_pc, win, label, job, cancel_arg, windows, pending, hidden, presses >>

\* lines 187-193: self.win = tk.Toplevel(self.root) and its attributes
ShowWindow ==
    /\ hk_pc = "show_win"
    /\ TkIdle
    /\ win' = NewWindow
    /\ windows' = windows \cup {NewWindow}
    /\ hk_pc' = "show_label"
    /\ UNCHANGED << rest, tk_pc, label, job, cancel_arg, pending, hidden, presses >>

\* lines 195-206: the frame and self.label
ShowLabel ==
    /\ hk_pc = "show_label"
    /\ TkIdle
    /\ label' = win
    /\ hk_pc' = "show_draw"
    /\ UNCHANGED << rest, tk_pc, win, job, cancel_arg, windows, pending, hidden, presses >>

\* line 207, lines 225-246: show calls self._update(), which draws
ShowDraw ==
    /\ hk_pc = "show_draw"
    /\ TkIdle
    /\ hk_pc' = "show_after"
    /\ UNCHANGED << rest, tk_pc, win, label, job, cancel_arg, windows, pending, hidden, presses >>

\* line 247 in the call made by show: self.job = self.root.after(30, self._update)
ShowAfter ==
    /\ hk_pc = "show_after"
    /\ TkIdle
    /\ pending' = pending \cup {NewJob}
    /\ job' = NewJob
    /\ hk_pc' = "idle"
    /\ UNCHANGED << rest, tk_pc, win, label, cancel_arg, windows, hidden, presses >>

\* lines 210-212: "if self.job is not None" and the argument of after_cancel
HideRead ==
    /\ hk_pc = "hide"
    /\ IF job # 0
       THEN cancel_arg' = job /\ hk_pc' = "hide_cancel"
       ELSE cancel_arg' = 0 /\ hk_pc' = "hide_win"
    /\ UNCHANGED << rest, tk_pc, win, label, job, windows, pending, hidden, presses >>

\* line 212: self.root.after_cancel(...)
HideCancel ==
    /\ hk_pc = "hide_cancel"
    /\ TkIdle
    /\ pending' = pending \ {cancel_arg}
    /\ hk_pc' = "hide_clear"
    /\ UNCHANGED << rest, tk_pc, win, label, job, cancel_arg, windows, hidden, presses >>

\* line 215: self.job = None
HideClear ==
    /\ hk_pc = "hide_clear"
    /\ job' = 0
    /\ cancel_arg' = 0
    /\ hk_pc' = "hide_win"
    /\ UNCHANGED << rest, tk_pc, win, label, windows, pending, hidden, presses >>

\* lines 216-220: "if self.win is not None: self.win.destroy()"; hide ends
\* here when there is no window
HideDestroy ==
    /\ hk_pc = "hide_win"
    /\ IF win # 0
       THEN /\ TkIdle
            /\ windows' = windows \ {win}
            /\ hk_pc' = "hide_none"
            /\ UNCHANGED hidden
       ELSE /\ hk_pc' = "idle"
            /\ hidden' = TRUE
            /\ UNCHANGED windows
    /\ UNCHANGED << rest, tk_pc, win, label, job, cancel_arg, pending, presses >>

\* lines 221-222: self.win = None; self.label = None; hide ends
HideNone ==
    /\ hk_pc = "hide_none"
    /\ win' = 0
    /\ label' = 0
    /\ hk_pc' = "idle"
    /\ hidden' = TRUE
    /\ UNCHANGED << rest, tk_pc, job, cancel_arg, windows, pending, presses >>

\* a scheduled job comes due: Tk runs self._update, lines 225-230
TimerFires ==
    /\ TkIdle
    /\ \E j \in pending : pending' = pending \ {j}
    /\ tk_pc' = "draw"
    /\ UNCHANGED << rest, hk_pc, win, label, job, cancel_arg, windows, hidden, presses >>

\* lines 231-246: "if self.label and self.win": label.config and the
\* geometry; label.config of a destroyed widget raises and ends the callback
TimerDraw ==
    /\ tk_pc = "draw"
    /\ tk_pc' = IF label # 0 /\ win # 0 /\ label \notin windows THEN "idle" ELSE "after"
    /\ UNCHANGED << rest, hk_pc, win, label, job, cancel_arg, windows, pending, hidden, presses >>

\* line 247 in the callback: self.job = self.root.after(30, self._update)
TimerAfter ==
    /\ tk_pc = "after"
    /\ pending' = pending \cup {NewJob}
    /\ job' = NewJob
    /\ tk_pc' = "idle"
    /\ UNCHANGED << rest, hk_pc, win, label, cancel_arg, windows, hidden, presses >>

NextHud ==
    \/ PressF8
    \/ ReleaseF8
    \/ ShowCheck
    \/ ShowWindow
    \/ ShowLabel
    \/ ShowDraw
    \/ ShowAfter
    \/ HideRead
    \/ HideCancel
    \/ HideClear
    \/ HideDestroy
    \/ HideNone
    \/ TimerFires
    \/ TimerDraw
    \/ TimerAfter

SpecHud == InitHud /\ [][NextHud]_vars

(***************************************************************************)
(* The user asks to abort while the search runs.  main registers its       *)
(* hotkeys (lines 340-374) only after find_and_click has returned (line    *)
(* 332) and the loop of lines 106-166 reads no flag, so the key press      *)
(* changes nothing in the program; the history abort_at keeps when it came.*)
(***************************************************************************)
Searching == pc \in {"check", "grab", "score", "decide", "sleep"}

UserAbort ==
    /\ Searching
    /\ abort_at = -1
    /\ abort_at' = iterations
    /\ UNCHANGED << pc, args, hud_monitors, templates, warned, now, start, monitors,
                    mi, ti, locals, gx, gy, found, outcome, calls, iterations,
                    enumerated, clock_read, history, last_match, report, best_seen,
                    mouse, mon_idx, hud >>

NextAbort == Next \/ UserAbort

SpecAbort == Init /\ [][NextAbort]_vars

(***************************************************************************)
(* Properties                                                              *)
(***************************************************************************)
Elapsed == now - start

AllOk(cs) == \A i \in 1..Len(cs) : cs[i].ok

\* the iteration's best score is at or above the threshold
BestReaches == seen # None /\ seen[1] >= threshold

\* the positions inside one pass of the while body, before the decision is acted on
InPass == pc \in {"grab", "score", "decide", "sleep"}

\* the positions inside the action block
InAction == pc \in {"moveTo", "click", "settle", "press"}

\* the executor calls of a faultless action block
ExpectedCalls ==
    << Call("moveTo", TRUE, << CenterX, CenterY >>), Call("click", TRUE, <<>>),
       Call("sleep", TRUE, <<>>), Call("press", TRUE, <<>>) >>

\* C1: at the end of every pass that passed the time check, a best score at or
\* above the threshold (equality included) leads to ACTING and to the result
\* True; otherwise the pass makes no executor call, the loop sleeps for the
\* retry interval and goes back to the top of the loop.
C1_DecisionByThreshold ==
    [][ /\ (pc = "decide" /\ BestReaches) => (pc' = "moveTo" /\ outcome' = "ACTING")
        /\ (pc = "decide" /\ ~BestReaches) =>
               (pc' = "sleep" /\ calls' = calls /\ outcome' = outcome)
        /\ InPass => calls = <<>>
        /\ pc = "sleep" =>
               (pc' = "check" /\ calls' = calls /\ now' >= now + Max(0, retry_ms))
        /\ (outcome = "ACTING" /\ pc' = "searched") => found' = TRUE
      ]_vars

C1_Witness ==
    /\ pc = "moveTo"
    /\ seen # None
    /\ seen[1] = threshold
    /\ iterations >= 2

\* C2: whenever the elapsed time at the check on top of the loop is at or
\* above the timeout (timeout 0 on the first pass included) the loop ends
\* EXPIRED, and from that check on no monitor is grabbed, no template scored
\* and no executor call made; grabs, scorings and calls only happen in a pass
\* whose check read an elapsed time below the timeout.
C2_TimeCheckFirst ==
    [][ /\ (pc = "check" /\ Elapsed >= timeout_ms) =>
               /\ pc' = "searched"
               /\ outcome' = "EXPIRED"
               /\ UNCHANGED << grabbed, tried, calls, iterations >>
        /\ outcome = "EXPIRED" => UNCHANGED << grabbed, tried, calls, iterations >>
        /\ (grabbed' # grabbed \/ tried' # tried \/ calls' # calls) => Elapsed < timeout_ms
      ]_vars

C2_Witness ==
    /\ outcome = "EXPIRED"
    /\ Elapsed = timeout_ms
    /\ iterations >= 1
    /\ monitors # <<>>

\* C3 (as claimed): at the end of a pass the candidate held is, among all
\* pairs scored in the pass, the first in (monitor, template) order with the
\* greatest score.
C3_BestIsFirstMaximum ==
    pc = "decide" =>
        IF seen = None
        THEN best_monitor = 0
        ELSE /\ best_val = seen[1]
             /\ best_monitor = seen[2]
             /\ best_image_name = templates[seen[3]].name

\* C4: a call that ends EXPIRED has returned False and has made no executor call.
C4_ExpiredWithoutAction ==
    outcome = "EXPIRED" => (calls = <<>> /\ found = FALSE /\ pc = "searched")

C4_Witness ==
    /\ outcome = "EXPIRED"
    /\ iterations >= 2
    /\ seen # None
    /\ seen[1] < threshold

\* C5: once the loop is ACTING the call returns True whichever executor call
\* raises, and no further pass of the loop is made.
C5_DetectionNotDowngraded ==
    [][ /\ (outcome = "ACTING" /\ pc' = "searched") => found' = TRUE
        /\ outcome = "ACTING" =>
               /\ iterations' = iterations
               /\ pc' \in {"click", "settle", "press", "searched"}
               /\ UNCHANGED << grabbed, tried >>
      ]_vars

C5_Witness ==
    /\ pc = "searched"
    /\ found = TRUE
    /\ Len(calls) = 2
    /\ ~calls[2].ok

\* C6: while no executor call raises, the calls of an ACTING call are a prefix
\* of: moveTo(center), click, settle sleep, press; all four have been made,
\* once each, when the call returns, and ACTING is never left for another pass.
C6_ActionOnceInOrder ==
    (outcome = "ACTING" /\ AllOk(calls)) =>
        /\ Len(calls) <= Len(ExpectedCalls)
        /\ calls = SubSeq(ExpectedCalls, 1, Len(calls))
        /\ pc = "searched" => calls = ExpectedCalls
        /\ InAction \/ pc = "searched"

C6_Witness ==
    /\ pc = "searched"
    /\ outcome = "ACTING"
    /\ AllOk(calls)
    /\ Len(calls) = 4

\* C7 (as claimed): when the enumeration yields no monitor, no pass of the
\* loop is run and no executor call is made.
C7_ZeroMonitorsNoIteration ==
    /\ (enumerated /\ monitors = <<>>) => (iterations = 0 /\ calls = <<>>)
    /\ outcome = "NO_MONITORS" => (iterations = 0 /\ calls = <<>>)

\* C8: when no path of the list can be read (the empty list included) the call
\* returns False at once: the clock has not been read, the monitors have not
\* been enumerated, nothing was grabbed, no sleep and no executor call was made.
NoneReadable == \A i \in 1..Len(images) : ImRead(images[i]).kind # "image"

C8_NoTemplatesFailsAtOnce ==
    [][ /\ (pc = "load" /\ NoneReadable) =>
               /\ pc' = "searched"
               /\ found' = FALSE
               /\ UNCHANGED << now, clock_read, enumerated, iterations, grabbed, calls >>
        /\ (pc = "searched" /\ NoneReadable) =>
               ~clock_read /\ ~enumerated /\ iterations = 0 /\ calls = <<>>
      ]_vars

C8_Witness ==
    /\ pc = "searched"
    /\ images # <<>>
    /\ outcome = "NO_TEMPLATES"
    /\ found = FALSE

\* C9: a grab that raises touches nothing but that monitor in that pass: the
\* candidate held is kept, the next monitor in order is grabbed next, at the
\* end of the pass every monitor has been tried (those that failed in the pass
\* before included) and every template was scored against every monitor
\* grabbed, and a best score at or above the threshold still leads to ACTING.
C9_GrabFailureIsLocal ==
    [][ /\ (pc = "grab" /\ grab_failed' # grab_failed) =>
               /\ UNCHANGED << best_val, best_loc, best_tpl_size, best_monitor,
                               best_image_name, tried, seen, calls, outcome >>
               /\ grab_failed' = grab_failed \cup {mi}
               /\ IF mi < Len(monitors) THEN pc' = "grab" /\ mi' = mi + 1
                                        ELSE pc' = "decide"
        /\ pc = "decide" =>
               /\ grabbed = 1..Len(monitors)
               /\ prev_failed \subseteq grabbed
               /\ tried = (grabbed \ grab_failed) \X (1..Len(templates))
        /\ (pc = "decide" /\ grab_failed # {} /\ BestReaches) => pc' = "moveTo"
      ]_vars

C9_Witness ==
    /\ pc = "moveTo"
    /\ grab_failed = {1}
    /\ prev_failed = {2}
    /\ best_monitor = 2

CeilDiv(a, b) == (a + b - 1) \div b

\* C11: with a retry interval r > 0 the loop enters at most ceil(timeout / r)
\* passes, whatever is scored in them.
C11_IterationsBoundedByBudget ==
    retry_ms > 0 => iterations <= CeilDiv(timeout_ms, retry_ms)

C11_Witness ==
    /\ outcome = "EXPIRED"
    /\ retry_ms = 2
    /\ iterations = CeilDiv(timeout_ms, retry_ms)
    /\ iterations > timeout_ms \div retry_ms

\* C12 (as claimed): the line printed on EXPIRED carries the best score seen
\* during the search, the greatest score over all the passes run.
C12_ExpiredReportsBestScore ==
    (outcome = "EXPIRED" /\ best_seen # <<>>) =>
        /\ report.kind = "not_found"
        /\ report.fields = best_seen

\* C13 (as claimed): after the user asked to abort, at most the pass in flight
\* is completed; no later pass is started.
C13_AbortStopsSearch ==
    abort_at >= 0 => iterations <= abort_at

\* the monitors of the list whose rectangle, right and bottom edge excluded,
\* holds the point
Holding(p, mons) ==
    { i \in 1..Len(mons) :
        /\ p[1] \in mons[i].left..(mons[i].left + mons[i].width - 1)
        /\ p[2] \in mons[i].top..(mons[i].top + mons[i].height - 1) }

\* C14: point_monitor_index returns the 1-based index of the first monitor of
\* the list whose half-open rectangle holds the point, and 0 when none does.
C14_FirstHoldingMonitor ==
    pc = "hud_located" =>
        LET hits == Holding(mouse, hud_monitors)
        IN  IF hits = {} THEN mon_idx = 0
            ELSE mon_idx \in hits /\ \A i \in hits : mon_idx <= i

\* the point lies on the right edge of the first monitor and on the left edge
\* of the second
C14_Witness ==
    /\ pc = "hud_located"
    /\ Len(hud_monitors) = 2
    /\ mouse[1] = hud_monitors[1].left + hud_monitors[1].width
    /\ mouse[1] = hud_monitors[2].left
    /\ mouse[2] = hud_monitors[2].top
    /\ mon_idx = 2

Readable(path) == ImRead(path).kind = "image"

Unreadable(path) == ~Readable(path)

\* C15: _load_templates returns exactly the readable entries in the order of
\* the input list, with one warning per unreadable entry; an unreadable entry
\* does not keep a later readable one out, and an all-unreadable list gives
\* the empty list.
C15_LoadsReadableInOrder ==
    pc \in {"start", "searched"} =>
        LET ok == SelectSeq(images, Readable)
            bad == SelectSeq(images, Unreadable)
        IN  /\ Len(templates) = Len(ok)
            /\ \A i \in 1..Len(ok) :
                   /\ templates[i].name = ok[i]
                   /\ templates[i].w = ImRead(ok[i]).w
                   /\ templates[i].h = ImRead(ok[i]).h
            /\ warned = bad
            /\ (ok = <<>> => templates = <<>>)

\* an unreadable path stands before a readable one, and another one after it
C15_Witness ==
    /\ pc = "start"
    /\ images = << "missing.png", "b.png", "locked.png" >>
    /\ Len(templates) = 1
    /\ Len(warned) = 2

\* a pointer or key call has been decided or issued
Acted == pc \in {"moveTo", "click", "settle", "press"} \/ calls # <<>>

\* every monitor was grabbed or skipped, and every template was tried on every
\* monitor that was grabbed, in the current iteration
PassComplete ==
    /\ grabbed = 1..Len(monitors)
    /\ tried = (grabbed \ grab_failed) \X (1..Len(templates))

\* C16: a pointer or key action is issued only after the pass over every
\* monitor and every template is complete, and the candidate acted on was
\* scored in that pass.
C16_ActsOnCompletedPass ==
    Acted =>
        /\ PassComplete
        /\ seen # None
        /\ << seen[2], seen[3] >> \in tried
        /\ best_val = seen[1]
        /\ best_monitor = seen[2]
        /\ best_image_name = templates[seen[3]].name

\* in a second pass the first pair reaches the threshold, three more pairs are
\* tried after it, and the action follows
C16_Witness ==
    /\ calls # <<>>
    /\ iterations = 2
    /\ Len(monitors) = 2
    /\ Len(templates) = 2
    /\ seen # None
    /\ seen[2] = 1
    /\ seen[3] = 1
    /\ Cardinality(tried) >= 3

\* C17: the click point is the top-left corner of the matched region, in
\* virtual-desktop coordinates, plus the template size div 2, on every monitor,
\* those of negative left or top included.
C17_ClickPointIsCornerPlusHalf ==
    pc = "moveTo" =>
        /\ gx = monitors[best_monitor].left + best_loc[1] + (best_tpl_size[1] \div 2)
        /\ gy = monitors[best_monitor].top + best_loc[2] + (best_tpl_size[2] \div 2)

\* the call came back with one of the two results of a search
Returned ==
    /\ pc = "searched"
    /\ \/ outcome = "ACTING" /\ found = TRUE
       \/ outcome = "EXPIRED" /\ found = FALSE

\* C18: every call that enters the search loop returns, either True after
\* ACTING or False after EXPIRED, when the clock advances and every capture,
\* scoring and sleep completes.
C18_SearchTerminates == (pc = "start") ~> Returned

\* a search without retry pause (retry_ms = 0) that made several passes and
\* then expired
C18_Witness ==
    /\ Returned
    /\ outcome = "EXPIRED"
    /\ retry_ms = 0
    /\ iterations >= 3

\* a retry sleep starts only within the budget, so the bound in Sleep excludes
\* no step of the program
SleepWithinBudget == pc = "sleep" => now - start < timeout_ms

\* the places of the calls of one operation in the history, all or the failed ones
CallsOf(op) == { i \in 1..Len(calls) : calls[i].op = op }

FailedCallsOf(op) == { i \in CallsOf(op) : ~calls[i].ok }

\* C19: the key is pressed only after the pointer move and the click of the
\* same call succeeded; after a failed move there is no click and no key
\* press, after a failed click no key press, and the key is pressed at most once.
C19_KeyOnlyAfterMoveAndClick ==
    /\ \A i \in CallsOf("click") :
           \E j \in CallsOf("moveTo") : j < i /\ calls[j].ok
    /\ \A i \in CallsOf("press") :
           \E j \in CallsOf("moveTo"), k \in CallsOf("click") :
               j < k /\ k < i /\ calls[j].ok /\ calls[k].ok
    /\ FailedCallsOf("moveTo") # {} => CallsOf("click") \cup CallsOf("press") = {}
    /\ FailedCallsOf("click") # {} => CallsOf("press") = {}
    /\ Cardinality(CallsOf("press")) <= 1
    /\ Cardinality(CallsOf("moveTo")) <= 1
    /\ Cardinality(CallsOf("click")) <= 1

\* the click raised after a successful move, and the call returned without a
\* key press
C19_Witness ==
    /\ pc = "searched"
    /\ Len(calls) = 2
    /\ calls[1] = Call("moveTo", TRUE, << gx, gy >>)
    /\ calls[2] = Call("click", FALSE, <<>>)

\* C20: under every interleaving of show and hide on the hotkey thread with
\* the timer-driven _update on the Tk thread, there is at most one HUD window
\* and at most one scheduled _update job, and after hide() has ended no
\* _update job is scheduled until show() is called again.
C20_OneWindowOneJob ==
    /\ Cardinality(windows) <= 1
    /\ Cardinality(pending) <= 1
    /\ (hidden /\ hk_pc = "idle") => pending = {}

====
